---------------------------- MODULE Spec2Model ----------------------------
(***************************************************************************)
(* Holiday lookup service (src/main.py): the per-year dataset files, the   *)
(* five query handlers and the date resolution they share.                 *)
(*                                                                         *)
(* A request is run by a worker.  A handler that touches the dataset store *)
(* twice (os.path.isfile, then open) is two steps, so that the store can   *)
(* change between them; everything a handler computes locally is part of   *)
(* the step that precedes it.                                              *)
(***************************************************************************)
EXTENDS Integers, Sequences, FiniteSets

VARIABLES files,    \* the json/ directory: year |-> content of json/<year>.json
          pc,       \* per worker: "idle", "open" (isfile passed), "done"
          req,      \* per worker: the request being served
          resp,     \* per worker: the response of the finished request
          fsCalls   \* per worker: file-system calls made for the request

vars == <<files, pc, req, resp, fsCalls>>

-----------------------------------------------------------------------------
(* Bounds and ranges *)

\* Query(ge=2000, le=3000), Query(ge=1, le=12), Query(ge=1, le=31)
MinYear == 2000
MaxMonth == 12
MaxDay == 31

\* longest dataset file of the model
MaxRecords == 2

Years == {MinYear, MinYear + 1}
Months == 1..MaxMonth

\* the days requests are drawn from: the first days of a month, a day in
\* the middle, and every day on which some month may end
Days == {1, 2, 15, 28, 29, 30, MaxDay}
Procs == {"w1", "w2"}

HTTP_200_OK == 200
HTTP_400_BAD_REQUEST == 400
HTTP_404_NOT_FOUND == 404

-----------------------------------------------------------------------------
(* datetime.date *)

None == [type |-> "NoneType"]

IsLeap(y) == (y % 4 = 0) /\ ((y % 100 # 0) \/ (y % 400 = 0))

DaysInMonth(y, m) ==
    IF m = 2 THEN (IF IsLeap(y) THEN 29 ELSE 28)
    ELSE IF m \in {4, 6, 9, 11} THEN 30 ELSE 31

\* date(year, month, day): <<the date>>, or <<>> when it raises ValueError
date(y, m, d) ==
    IF y \in 1..9999 /\ m \in 1..12 /\ d >= 1 /\ d <= DaysInMonth(y, m)
    THEN <<[year |-> y, month |-> m, day |-> d]>>
    ELSE <<>>

\* date.__le__: dates compare as (year, month, day)
DateLe(a, b) ==
    \/ a.year < b.year
    \/ a.year = b.year /\ a.month < b.month
    \/ a.year = b.year /\ a.month = b.month /\ a.day <= b.day

RECURSIVE DaysBeforeMonth(_, _)
DaysBeforeMonth(y, m) ==
    IF m <= 1 THEN 0 ELSE DaysBeforeMonth(y, m - 1) + DaysInMonth(y, m - 1)

\* date.toordinal(): 1 for 0001-01-01
toordinal(dt) ==
    LET y1 == dt.year - 1
    IN  y1 * 365 + (y1 \div 4) - (y1 \div 100) + (y1 \div 400)
          + DaysBeforeMonth(dt.year, dt.month) + dt.day

\* date.weekday(): Monday is 0
weekday(dt) == (toordinal(dt) + 6) % 7

DayNames == <<"Monday", "Tuesday", "Wednesday", "Thursday", "Friday",
              "Saturday", "Sunday">>

MonthNames == <<"January", "February", "March", "April", "May", "June", "July",
                "August", "September", "October", "November", "December">>

Digits == <<"0", "1", "2", "3", "4", "5", "6", "7", "8", "9">>

\* strftime("%A")
strftime_A(dt) == DayNames[weekday(dt) + 1]

\* strftime("%B")
strftime_B(dt) == MonthNames[dt.month]

\* strftime("%W"): week of the year, Monday first, two digits; the days before
\* the first Monday are week 00
strftime_W(dt) ==
    LET yday == DaysBeforeMonth(dt.year, dt.month) + dt.day - 1
        w == (yday + 7 - weekday(dt)) \div 7
    IN  <<Digits[(w \div 10) + 1], Digits[(w % 10) + 1]>>

-----------------------------------------------------------------------------
(* datetime.strptime(text, "%Y-%m-%d"); a text is a sequence of characters *)

IsDigit(c) == \E i \in 1..10 : Digits[i] = c

DigitVal(c) == (CHOOSE i \in 1..10 : Digits[i] = c) - 1

RECURSIVE Number(_)
Number(s) ==
    IF s = <<>> THEN 0
    ELSE 10 * Number(SubSeq(s, 1, Len(s) - 1)) + DigitVal(s[Len(s)])

AllDigits(s) == \A i \in 1..Len(s) : IsDigit(s[i])

\* <<the datetime's date>>, or <<>> when strptime raises ValueError
strptime(s) ==
    LET dashes == {i \in 1..Len(s) : s[i] = "-"}
    IN  IF Cardinality(dashes) # 2 THEN <<>>
        ELSE LET i1 == CHOOSE i \in dashes : \A j \in dashes : i <= j
                 i2 == CHOOSE i \in dashes : \A j \in dashes : j <= i
                 Y == SubSeq(s, 1, i1 - 1)
                 M == SubSeq(s, i1 + 1, i2 - 1)
                 D == SubSeq(s, i2 + 1, Len(s))
             IN  IF /\ Len(Y) = 4 /\ Len(M) \in {1, 2} /\ Len(D) \in {1, 2}
                    /\ AllDigits(Y) /\ AllDigits(M) /\ AllDigits(D)
                 THEN date(Number(Y), Number(M), Number(D))
                 ELSE <<>>

-----------------------------------------------------------------------------
(* The dataset files: json/<year>.json holds a list of records             *)
(* {uid, summary, start: "YYYY-MM-DD", end: "YYYY-MM-DD", categories}      *)

Pad2(n) == <<Digits[((n \div 10) % 10) + 1], Digits[(n % 10) + 1]>>

Pad4(n) == Pad2(n \div 100) \o Pad2(n % 100)

\* the text "YYYY-MM-DD" of a date, as the files spell it
IsoText(y, m, d) == Pad4(y) \o <<"-">> \o Pad2(m) \o <<"-">> \o Pad2(d)

\* The records a file of year y draws from: a one-day holiday, a holiday
\* running from January into February, and one overlapping it that runs
\* from February into March (over 29 February in a leap year).
HolidayPool(y) ==
    { [uid |-> "h1", summary |-> "New Year",
       start |-> IsoText(y, 1, 1), end |-> IsoText(y, 1, 1),
       categories |-> <<"public">>],
      [uid |-> "h2", summary |-> "Festival",
       start |-> IsoText(y, 1, 31), end |-> IsoText(y, 2, 2),
       categories |-> <<"public", "bank">>],
      [uid |-> "h3", summary |-> "Season",
       start |-> IsoText(y, 2, 2), end |-> IsoText(y, 3, 1),
       categories |-> <<>>] }

\* the files a year can have: up to MaxRecords records, uids distinct, any order
YearDatasets(y) ==
    { s \in UNION { [1..n -> HolidayPool(y)] : n \in 0..MaxRecords } :
        \A i, j \in 1..Len(s) : i # j => s[i].uid # s[j].uid }

\* the states of the json/ directory: a file for some of the years
Directories ==
    UNION { { f \in [D -> UNION { YearDatasets(y) : y \in D }] :
                \A y \in D : f[y] \in YearDatasets(y) } : D \in SUBSET Years }

\* f"json/{year}.json" names the file of the year; os.path.isfile(filename)
isfile(year) == year \in DOMAIN files

-----------------------------------------------------------------------------
(* Responses *)

NoRequest == [op |-> "none"]
NoResponse == [kind |-> "none"]

\* a handler's return value, with the status the Response object carries
Returned(status_code, body) ==
    [kind |-> "return", status |-> status_code, body |-> body]

\* raise HTTPException(status_code, detail)
Raised(status_code, detail) ==
    [kind |-> "HTTPException", status |-> status_code,
     body |-> [detail |-> detail]]

\* an exception no handler catches: the server answers 500
Unhandled(exc) ==
    [kind |-> "unhandled", status |-> 500, body |-> [exception |-> exc]]

-----------------------------------------------------------------------------
(* get_holiday_info(year, month, day): a tuple                             *)
(* (date_provided, status_code, result), or an exception (raises)          *)

Tuple(date_provided, status_code, result) ==
    [date_provided |-> date_provided, status_code |-> status_code,
     result |-> result]

Raises(exc) == [raises |-> exc]

\* the existence check made before the date is built
get_holiday_info_enter_yearFirst(year, month, day, exists) ==
    IF ~exists
    THEN [calls |-> <<"isfile">>,
          value |-> <<Tuple(IF date(year, month, day) = <<>> THEN None
                            ELSE date(year, month, day)[1],
                            HTTP_404_NOT_FOUND,
                            [error |-> "requested year not available"])>>]
    ELSE IF date(year, month, day) = <<>>
    THEN [calls |-> <<"isfile">>,
          value |-> <<Tuple(None, HTTP_400_BAD_REQUEST,
                            [error |-> "invalid date"])>>]
    ELSE [calls |-> <<"isfile">>, value |-> <<>>]

\* Up to the existence check of the year's file.  exists is what
\* os.path.isfile answers, asked only once the date is built; calls are the
\* file-system calls made; without a value the handler goes on to open the file.
get_holiday_info_enter(year, month, day, exists) ==
    IF date(year, month, day) = <<>>
    THEN [calls |-> <<>>,
          value |-> <<Tuple(None, HTTP_400_BAD_REQUEST,
                            [error |-> "invalid date"])>>]
    ELSE IF ~exists
    THEN [calls |-> <<"isfile">>,
          value |-> <<Tuple(date(year, month, day)[1], HTTP_404_NOT_FOUND,
                            [error |-> "requested year not available"])>>]
    ELSE [calls |-> <<"isfile">>, value |-> <<>>]

\* the range taken without its last day
InRange_endExclusive(start_date, date_to_check, end_date) ==
    DateLe(start_date, date_to_check) /\ ~DateLe(end_date, date_to_check)

\* start_date <= date_to_check <= end_date
InRange(start_date, date_to_check, end_date) ==
    DateLe(start_date, date_to_check) /\ DateLe(date_to_check, end_date)

\* the detail dict of a holiday
HolidayDetail(date_to_check, holiday) ==
    [day |-> strftime_A(date_to_check),
     week |-> strftime_W(date_to_check),
     month |-> strftime_B(date_to_check),
     is_holiday |-> TRUE,
     id |-> holiday.uid,
     holiday |-> holiday.summary,
     categories |-> holiday.categories,
     holiday_start |-> holiday.start,
     holiday_end |-> holiday.end]

\* for holiday in holiday_data, from the i-th record on
RECURSIVE get_holiday_info_loop(_, _, _)
get_holiday_info_loop(holiday_data, date_to_check, i) ==
    IF i > Len(holiday_data)
    THEN Tuple(date_to_check, HTTP_200_OK, [is_holiday |-> FALSE])
    ELSE LET holiday == holiday_data[i]
             start_date == strptime(holiday.start)
             end_date == strptime(holiday.end)
         IN  IF start_date = <<>> \/ end_date = <<>>
             THEN Raises("ValueError")
             ELSE IF InRange(start_date[1], date_to_check, end_date[1])
             THEN Tuple(date_to_check, HTTP_200_OK,
                        HolidayDetail(date_to_check, holiday))
             ELSE get_holiday_info_loop(holiday_data, date_to_check, i + 1)

-----------------------------------------------------------------------------
(* The two presentations of get_holiday_info *)

\* is_holiday read before the status is looked at
check_holiday_body_readFirst(t) ==
    IF "is_holiday" \notin DOMAIN t.result
    THEN Unhandled("KeyError")
    ELSE IF t.result.is_holiday
    THEN Returned(t.status_code, t.result)
    ELSE IF t.status_code # HTTP_200_OK
    THEN Returned(t.status_code, [response |-> t.result])
    ELSE Returned(t.status_code, [date |-> t.date_provided, response |-> FALSE])

\* check_holiday, after the call of get_holiday_info
check_holiday_body(t) ==
    IF t.status_code # HTTP_200_OK
    THEN Returned(t.status_code, [response |-> t.result])
    ELSE IF "is_holiday" \notin DOMAIN t.result
    THEN Unhandled("KeyError")
    ELSE IF t.result.is_holiday
    THEN Returned(t.status_code, t.result)
    ELSE Returned(t.status_code, [date |-> t.date_provided, response |-> FALSE])

\* the response status left at its default
holiday_info_body_statusUnset(t) ==
    Returned(HTTP_200_OK, [date |-> t.date_provided, response |-> t.result])

\* holiday_info, after the call of get_holiday_info
holiday_info_body(t) ==
    Returned(t.status_code, [date |-> t.date_provided, response |-> t.result])

\* the response of the endpoint op to what get_holiday_info gave
Present(op, t) ==
    IF "raises" \in DOMAIN t THEN Unhandled(t.raises)
    ELSE IF op = "check_holiday" THEN check_holiday_body(t)
    ELSE holiday_info_body(t)

-----------------------------------------------------------------------------
(* holidays_list and holidays_in_year *)

\* the filter taken by overlap of the range with the month
RECURSIVE holidays_in_month_byOverlap(_, _, _)
holidays_in_month_byOverlap(holiday_data, month, i) ==
    IF i > Len(holiday_data) THEN [list |-> <<>>]
    ELSE LET start_date == strptime(holiday_data[i].start)
             end_date == strptime(holiday_data[i].end)
             rest == holidays_in_month_byOverlap(holiday_data, month, i + 1)
         IN  IF start_date = <<>> \/ end_date = <<>> \/ "raises" \in DOMAIN rest
             THEN Raises("ValueError")
             ELSE IF start_date[1].month <= month /\ month <= end_date[1].month
             THEN [list |-> <<holiday_data[i]>> \o rest.list]
             ELSE rest

\* [holiday for holiday in holiday_data if strptime(holiday["start"]).month == month]
RECURSIVE holidays_in_month(_, _, _)
holidays_in_month(holiday_data, month, i) ==
    IF i > Len(holiday_data) THEN [list |-> <<>>]
    ELSE LET start_date == strptime(holiday_data[i].start)
             rest == holidays_in_month(holiday_data, month, i + 1)
         IN  IF start_date = <<>> \/ "raises" \in DOMAIN rest
             THEN Raises("ValueError")
             ELSE IF start_date[1].month = month
             THEN [list |-> <<holiday_data[i]>> \o rest.list]
             ELSE rest

\* holidays_list, once the file is read
holidays_list_body(holiday_data, month) ==
    LET found == holidays_in_month(holiday_data, month, 1)
    IN  IF "raises" \in DOMAIN found THEN Unhandled(found.raises)
        ELSE IF found.list # <<>>
        THEN Returned(HTTP_200_OK, [holidays |-> found.list])
        ELSE Returned(HTTP_200_OK,
                      [response |-> "No holidays found for this month"])

\* the list comprehension of holidays_in_year
YearEntry(holiday) ==
    [uid |-> holiday.uid, holiday |-> holiday.summary, start |-> holiday.start,
     end |-> holiday["end"], categories |-> holiday.categories]

\* an empty file answered like a missing one
holidays_in_year_body_emptyAsMissing(year, holiday_data) ==
    IF holiday_data = <<>>
    THEN Returned(HTTP_200_OK,
                  [year |-> year, response |-> "Data not available for this year."])
    ELSE Returned(HTTP_200_OK,
                  [year |-> year,
                   holidays |-> [i \in 1..Len(holiday_data) |->
                                    [uid |-> holiday_data[i].uid,
                                     holiday |-> holiday_data[i].summary,
                                     start |-> holiday_data[i].start,
                                     end |-> holiday_data[i].end,
                                     categories |-> holiday_data[i].categories]]])

holidays_in_year_body(year, holiday_data) ==
    Returned(HTTP_200_OK,
             [year |-> year,
              holidays |-> [i \in 1..Len(holiday_data) |->
                               YearEntry(holiday_data[i])]])

\* the missing year reported as holidays_list reports it
YearNotAvailable_raised(year) ==
    Raised(HTTP_404_NOT_FOUND, "Data not available for this year.")

YearNotAvailable(year) ==
    Returned(HTTP_200_OK,
             [year |-> year, response |-> "Data not available for this year."])

\* api_coverage_year, given what os.path.isfile answers
api_coverage_year_body(year, exists) ==
    Returned(HTTP_200_OK,
             [year |-> year,
              coverage |-> IF exists THEN "ok" ELSE "data not available"])

-----------------------------------------------------------------------------
(* The state machine *)

Init ==
    /\ files \in Directories
    /\ pc = [p \in Procs |-> "idle"]
    /\ req = [p \in Procs |-> NoRequest]
    /\ resp = [p \in Procs |-> NoResponse]
    /\ fsCalls = [p \in Procs |-> <<>>]

DateOps == {"check_holiday", "holiday_info"}

Finish(p, r, calls) ==
    /\ pc' = [pc EXCEPT ![p] = "done"]
    /\ resp' = [resp EXCEPT ![p] = r]
    /\ fsCalls' = [fsCalls EXCEPT ![p] = fsCalls[p] \o calls]

GoOpen(p, calls) ==
    /\ pc' = [pc EXCEPT ![p] = "open"]
    /\ fsCalls' = [fsCalls EXCEPT ![p] = fsCalls[p] \o calls]
    /\ UNCHANGED resp

\* check_holiday or holiday_info is called: get_holiday_info up to isfile
get_holiday_info(p, op, year, month, day) ==
    /\ pc[p] = "idle"
    /\ op \in DateOps
    /\ req' = [req EXCEPT ![p] =
                  [op |-> op, year |-> year, month |-> month, day |-> day]]
    /\ LET e == get_holiday_info_enter(year, month, day, isfile(year))
       IN  IF e.value # <<>>
           THEN Finish(p, Present(op, e.value[1]), e.calls)
           ELSE GoOpen(p, e.calls)
    /\ UNCHANGED files

\* get_holiday_info: open, json.load, the loop, and the presentation
get_holiday_info_open(p) ==
    /\ pc[p] = "open"
    /\ req[p].op \in DateOps
    /\ IF ~isfile(req[p].year)
       THEN Finish(p, Present(req[p].op, Raises("FileNotFoundError")),
                   <<"open">>)
       ELSE Finish(p,
                   Present(req[p].op,
                           get_holiday_info_loop(
                               files[req[p].year],
                               date(req[p].year, req[p].month, req[p].day)[1],
                               1)),
                   <<"open">>)
    /\ UNCHANGED <<files, req>>

\* holidays_list is called: the existence check
holidays_list(p, year, month) ==
    /\ pc[p] = "idle"
    /\ req' = [req EXCEPT ![p] =
                  [op |-> "holidays_list", year |-> year, month |-> month]]
    /\ IF ~isfile(year)
       THEN Finish(p, Raised(HTTP_404_NOT_FOUND,
                             "Holiday data not available for the year"),
                   <<"isfile">>)
       ELSE GoOpen(p, <<"isfile">>)
    /\ UNCHANGED files

\* the filter done in place on a dataset the workers share
holidays_list_open_inPlace(p) ==
    /\ pc[p] = "open"
    /\ req[p].op = "holidays_list"
    /\ IF ~isfile(req[p].year)
       THEN /\ Finish(p, Unhandled("FileNotFoundError"), <<"open">>)
            /\ UNCHANGED files
       ELSE /\ Finish(p, holidays_list_body(files[req[p].year], req[p].month),
                      <<"open">>)
            /\ files' = [files EXCEPT ![req[p].year] =
                            holidays_in_month(files[req[p].year],
                                              req[p].month, 1).list]
    /\ UNCHANGED req

\* holidays_list: open, json.load, the filter
holidays_list_open(p) ==
    /\ pc[p] = "open"
    /\ req[p].op = "holidays_list"
    /\ IF ~isfile(req[p].year)
       THEN Finish(p, Unhandled("FileNotFoundError"), <<"open">>)
       ELSE Finish(p, holidays_list_body(files[req[p].year], req[p].month),
                   <<"open">>)
    /\ UNCHANGED <<files, req>>

\* holidays_in_year is called: the existence check
holidays_in_year(p, year) ==
    /\ pc[p] = "idle"
    /\ req' = [req EXCEPT ![p] = [op |-> "holidays_in_year", year |-> year]]
    /\ IF ~isfile(year)
       THEN Finish(p, YearNotAvailable(year), <<"isfile">>)
       ELSE GoOpen(p, <<"isfile">>)
    /\ UNCHANGED files

\* holidays_in_year: the try block, with its except FileNotFoundError
holidays_in_year_open(p) ==
    /\ pc[p] = "open"
    /\ req[p].op = "holidays_in_year"
    /\ IF ~isfile(req[p].year)
       THEN Finish(p, YearNotAvailable(req[p].year), <<"open">>)
       ELSE Finish(p, holidays_in_year_body(req[p].year, files[req[p].year]),
                   <<"open">>)
    /\ UNCHANGED <<files, req>>

\* coverage decided by loading the file and looking for records
api_coverage_year_byContent(p, year) ==
    /\ pc[p] = "idle"
    /\ req' = [req EXCEPT ![p] = [op |-> "api_coverage_year", year |-> year]]
    /\ IF isfile(year)
       THEN Finish(p, api_coverage_year_body(year, files[year] # <<>>),
                   <<"isfile", "open">>)
       ELSE Finish(p, api_coverage_year_body(year, FALSE), <<"isfile">>)
    /\ UNCHANGED files

\* api_coverage_year: one existence check
api_coverage_year(p, year) ==
    /\ pc[p] = "idle"
    /\ req' = [req EXCEPT ![p] = [op |-> "api_coverage_year", year |-> year]]
    /\ Finish(p, api_coverage_year_body(year, isfile(year)), <<"isfile">>)
    /\ UNCHANGED files

\* the response is sent and the worker takes the next request
Return(p) ==
    /\ pc[p] = "done"
    /\ pc' = [pc EXCEPT ![p] = "idle"]
    /\ req' = [req EXCEPT ![p] = NoRequest]
    /\ resp' = [resp EXCEPT ![p] = NoResponse]
    /\ fsCalls' = [fsCalls EXCEPT ![p] = <<>>]
    /\ UNCHANGED files

\* outside the program: the file of a year is removed from json/
RemoveDataset(year) ==
    /\ year \in DOMAIN files
    /\ files' = [y \in DOMAIN files \ {year} |-> files[y]]
    /\ UNCHANGED <<pc, req, resp, fsCalls>>

-----------------------------------------------------------------------------
(* Specifications *)

\* the dates and months the interleaved requests are drawn from
ProbeDates == {<<1, 31>>, <<2, 2>>, <<2, 29>>}
ProbeMonths == {1, 2}

Step(p) ==
    \/ get_holiday_info_open(p)
    \/ holidays_list_open(p)
    \/ holidays_in_year_open(p)
    \/ Return(p)

\* a request arrives at an idle worker, from the whole input range
WideCall(p) ==
    /\ pc[p] = "idle"
    /\ \/ \E op \in DateOps, y \in Years, m \in Months, d \in Days :
              get_holiday_info(p, op, y, m, d)
       \/ \E y \in Years, m \in Months : holidays_list(p, y, m)
       \/ \E y \in Years : holidays_in_year(p, y)
       \/ \E y \in Years : api_coverage_year(p, y)

\* a request arrives at an idle worker, from the probe inputs
ProbeCall(p) ==
    /\ pc[p] = "idle"
    /\ \/ \E op \in DateOps, y \in Years, md \in ProbeDates :
              get_holiday_info(p, op, y, md[1], md[2])
       \/ \E y \in Years, m \in ProbeMonths : holidays_list(p, y, m)
       \/ \E y \in Years : holidays_in_year(p, y)
       \/ \E y \in Years : api_coverage_year(p, y)

\* one request at a time over the whole input range, the store fixed
NextSeq == WideCall("w1") \/ Step("w1")

SpecSeq == Init /\ [][NextSeq]_vars

\* two workers interleaved, the store fixed
NextPar == \E p \in Procs : ProbeCall(p) \/ Step(p)

SpecPar == Init /\ [][NextPar]_vars

\* two workers interleaved with removals of dataset files
Next ==
    \/ \E p \in Procs : ProbeCall(p) \/ Step(p)
    \/ \E y \in Years : RemoveDataset(y)

Spec == Init /\ [][Next]_vars

-----------------------------------------------------------------------------
(* What the properties speak of, stated apart from the handlers' code *)

MonthLengths == <<31, 28, 31, 30, 31, 30, 31, 31, 30, 31, 30, 31>>

\* (year, month, day) is a day of the calendar
Legal(y, m, d) ==
    /\ m \in 1..12
    /\ d >= 1
    /\ d <= MonthLengths[m]
              + (IF m = 2 /\ (y % 400 = 0 \/ (y % 4 = 0 /\ y % 100 # 0))
                 THEN 1 ELSE 0)

\* the number in columns a..b of a text
RECURSIVE Columns(_, _, _)
Columns(s, a, b) ==
    IF b < a THEN 0
    ELSE 10 * Columns(s, a, b - 1)
           + (CHOOSE n \in 0..9 : Digits[n + 1] = s[b])

\* a "YYYY-MM-DD" text and a date as one number each, ordered as the calendar
TextKey(s) == Columns(s, 1, 4) * 10000 + Columns(s, 6, 7) * 100 + Columns(s, 9, 10)
DateKey(y, m, d) == y * 10000 + m * 100 + d

\* the record's range holds the day, both ends included
Covers(rec, y, m, d) ==
    TextKey(rec.start) <= DateKey(y, m, d) /\ DateKey(y, m, d) <= TextKey(rec.end)

\* the places of the records of data that hold the day
Hits(data, y, m, d) == {i \in 1..Len(data) : Covers(data[i], y, m, d)}

Least(S) == CHOOSE i \in S : \A j \in S : i <= j

\* a finished request of worker p to one of the two date endpoints
DateDone(p) == pc[p] = "done" /\ req[p].op \in DateOps

ReqLegal(p) == Legal(req[p].year, req[p].month, req[p].day)

ReqDate(p) == [year |-> req[p].year, month |-> req[p].month, day |-> req[p].day]

ReqHits(p) == Hits(files[req[p].year], req[p].year, req[p].month, req[p].day)

InvalidDatePayload == [error |-> "invalid date"]
YearUnavailablePayload == [error |-> "requested year not available"]

-----------------------------------------------------------------------------
(* C1: date resolution of a legal date whose year has a dataset *)

\* what get_holiday_info gave, read off the finished response: holiday_info
\* passes it on whole, check_holiday passes a holiday's detail on whole
SeenHoliday(p) ==
    IF req[p].op = "holiday_info" THEN resp[p].body.response ELSE resp[p].body

SeenNotHoliday(p) ==
    IF req[p].op = "holiday_info"
    THEN resp[p].body = [date |-> ReqDate(p), response |-> [is_holiday |-> FALSE]]
    ELSE resp[p].body = [date |-> ReqDate(p), response |-> FALSE]

\* C1: for a legal date whose year has a dataset the status is 200; when
\* records of the dataset hold the date the response carries the id, summary,
\* start, end and categories of the first of them in dataset order (both ends
\* of a range included), and when none holds it the response is the
\* not-a-holiday one.
C1_FirstMatchInclusive ==
    \A p \in Procs :
        (DateDone(p) /\ ReqLegal(p) /\ req[p].year \in DOMAIN files) =>
            /\ resp[p].kind = "return"
            /\ resp[p].status = 200
            /\ IF ReqHits(p) = {}
               THEN SeenNotHoliday(p)
               ELSE /\ "is_holiday" \in DOMAIN SeenHoliday(p)
                    /\ SeenHoliday(p).is_holiday
                    /\ LET first == files[req[p].year][Least(ReqHits(p))]
                           r == SeenHoliday(p)
                       IN  /\ r.id = first.uid
                           /\ r.holiday = first.summary
                           /\ r.holiday_start = first.start
                           /\ r.holiday_end = first.end
                           /\ r.categories = first.categories

\* 2 February 2000 is the last day of h2 and the first day of h3; the file
\* lists h3 first, and h3 is the answer
C1_Witness ==
    \E p \in Procs :
        /\ DateDone(p) /\ req[p].op = "holiday_info"
        /\ req[p].year = 2000 /\ req[p].month = 2 /\ req[p].day = 2
        /\ 2000 \in DOMAIN files
        /\ Len(files[2000]) = 2
        /\ files[2000][1].uid = "h3" /\ files[2000][2].uid = "h2"
        /\ ReqHits(p) = {1, 2}
        /\ resp[p].status = 200
        /\ resp[p].body.response.id = "h3"

-----------------------------------------------------------------------------
(* C2: a date that is not of the calendar *)

\* C2: for (year, month, day) that is no calendar date the status is 400 with
\* the invalid-date error and a null date, whether the year has a dataset or
\* not, and no file-system call is made.
C2_InvalidDateFirst ==
    \A p \in Procs :
        (DateDone(p) /\ ~ReqLegal(p)) =>
            /\ resp[p].kind = "return"
            /\ resp[p].status = 400
            /\ fsCalls[p] = <<>>
            /\ IF req[p].op = "holiday_info"
               THEN resp[p].body = [date |-> None, response |-> InvalidDatePayload]
               ELSE resp[p].body = [response |-> InvalidDatePayload]

\* 29 February 2001 asked while json/2001.json is absent: 400, not 404
C2_Witness ==
    \E p \in Procs :
        /\ DateDone(p) /\ req[p].op = "holiday_info"
        /\ req[p].year = 2001 /\ req[p].month = 2 /\ req[p].day = 29
        /\ 2001 \notin DOMAIN files
        /\ resp[p].status = 400
        /\ resp[p].body.date = None

-----------------------------------------------------------------------------
(* C3: the year without a dataset, endpoint by endpoint *)

NoDataset(p) == pc[p] = "done" /\ req[p].year \notin DOMAIN files

\* C3: when the year has no dataset, a legal date asked of check_holiday or
\* holiday_info gets status 404 with the year-unavailable error, holidays_list
\* fails with a 404 error, and holidays_in_year and api_coverage_year return
\* normally with status 200 and a 'not available' text.
C3_MissingYearPerEndpoint ==
    \A p \in Procs :
        NoDataset(p) =>
            CASE req[p].op \in DateOps ->
                   ReqLegal(p) =>
                       /\ resp[p].kind = "return"
                       /\ resp[p].status = 404
                       /\ IF req[p].op = "holiday_info"
                          THEN resp[p].body.response = YearUnavailablePayload
                          ELSE resp[p].body = [response |-> YearUnavailablePayload]
              [] req[p].op = "holidays_list" ->
                   /\ resp[p].kind = "HTTPException"
                   /\ resp[p].status = 404
              [] req[p].op = "holidays_in_year" ->
                   /\ resp[p].kind = "return"
                   /\ resp[p].status = 200
                   /\ resp[p].body =
                          [year |-> req[p].year,
                           response |-> "Data not available for this year."]
              [] req[p].op = "api_coverage_year" ->
                   /\ resp[p].kind = "return"
                   /\ resp[p].status = 200
                   /\ resp[p].body =
                          [year |-> req[p].year, coverage |-> "data not available"]

\* the month listing and the year listing of the same absent year, side by
\* side: an error 404 and a normal 200
C3_Witness ==
    /\ 2001 \notin DOMAIN files
    /\ pc["w1"] = "done" /\ req["w1"].op = "holidays_list" /\ req["w1"].year = 2001
    /\ pc["w2"] = "done" /\ req["w2"].op = "holidays_in_year" /\ req["w2"].year = 2001
    /\ resp["w1"].kind = "HTTPException" /\ resp["w1"].status = 404
    /\ resp["w2"].kind = "return" /\ resp["w2"].status = 200

-----------------------------------------------------------------------------
(* C4: strict and verbose mode *)

\* the status of the outcome of resolving the request's date
OutcomeStatus(p) ==
    IF ~ReqLegal(p) THEN 400
    ELSE IF req[p].year \notin DOMAIN files THEN 404
    ELSE 200

SameDate(p, q) ==
    /\ req[p].year = req[q].year
    /\ req[p].month = req[q].month
    /\ req[p].day = req[q].day

\* C4: check_holiday and holiday_info set the same status for the same input
\* and store: 200 for Holiday and NotHoliday, 400 for InvalidDate, 404 for
\* YearUnavailable; and holiday_info always returns {date, response: payload},
\* the payload being that of the outcome.
C4_StrictVerboseSameStatus ==
    /\ \A p \in Procs :
           DateDone(p) =>
               /\ resp[p].kind = "return"
               /\ resp[p].status = OutcomeStatus(p)
    /\ \A p, q \in Procs :
           (DateDone(p) /\ DateDone(q) /\ SameDate(p, q)) =>
               resp[p].status = resp[q].status
    /\ \A p \in Procs :
           (DateDone(p) /\ req[p].op = "holiday_info") =>
               /\ DOMAIN resp[p].body = {"date", "response"}
               /\ resp[p].body.date = (IF ReqLegal(p) THEN ReqDate(p) ELSE None)
               /\ CASE OutcomeStatus(p) = 400 ->
                         resp[p].body.response = InvalidDatePayload
                    [] OutcomeStatus(p) = 404 ->
                         resp[p].body.response = YearUnavailablePayload
                    [] OTHER ->
                         /\ "is_holiday" \in DOMAIN resp[p].body.response
                         /\ resp[p].body.response.is_holiday = (ReqHits(p) # {})

\* the same absent-year date asked in both modes: 404 twice, the verbose body
\* wrapping what the strict body carries under its key
C4_Witness ==
    /\ DateDone("w1") /\ req["w1"].op = "check_holiday"
    /\ DateDone("w2") /\ req["w2"].op = "holiday_info"
    /\ SameDate("w1", "w2")
    /\ OutcomeStatus("w1") = 404
    /\ resp["w1"].status = 404 /\ resp["w2"].status = 404
    /\ resp["w2"].body.response = resp["w1"].body.response

-----------------------------------------------------------------------------
(* C5: the body of strict mode *)

DetailKeys == {"day", "week", "month", "is_holiday", "id", "holiday",
               "categories", "holiday_start", "holiday_end"}

\* C5: check_holiday returns, on Holiday, the detail record itself with
\* is_holiday true; on NotHoliday exactly {date, response: false}; on
\* InvalidDate and YearUnavailable the error detail under the single key
\* response with the error's status; and no outcome ends in an exception from
\* reading is_holiday.
C5_StrictBodyByOutcome ==
    \A p \in Procs :
        (DateDone(p) /\ req[p].op = "check_holiday") =>
            /\ resp[p].kind = "return"
            /\ CASE OutcomeStatus(p) = 400 ->
                      /\ resp[p].status = 400
                      /\ resp[p].body = [response |-> InvalidDatePayload]
                 [] OutcomeStatus(p) = 404 ->
                      /\ resp[p].status = 404
                      /\ resp[p].body = [response |-> YearUnavailablePayload]
                 [] OTHER ->
                      /\ resp[p].status = 200
                      /\ IF ReqHits(p) # {}
                         THEN /\ DOMAIN resp[p].body = DetailKeys
                              /\ resp[p].body.is_holiday = TRUE
                              /\ resp[p].body.id =
                                     files[req[p].year][Least(ReqHits(p))].uid
                         ELSE /\ DOMAIN resp[p].body = {"date", "response"}
                              /\ resp[p].body.date = ReqDate(p)
                              /\ resp[p].body.response = FALSE

\* 30 February asked in strict mode: the error under one key, status 400
C5_Witness ==
    \E p \in Procs :
        /\ DateDone(p) /\ req[p].op = "check_holiday"
        /\ req[p].month = 2 /\ req[p].day = 30
        /\ resp[p].kind = "return" /\ resp[p].status = 400
        /\ DOMAIN resp[p].body = {"response"}
        /\ "is_holiday" \notin DOMAIN resp[p].body.response

-----------------------------------------------------------------------------
(* C6: the year listing *)

YearDone(p) ==
    pc[p] = "done" /\ req[p].op = "holidays_in_year" /\ req[p].year \in DOMAIN files

\* C6: for a year with a dataset holidays_in_year lists every record once, in
\* the dataset's order, as {uid, holiday, start, end, categories} taken from
\* {uid, summary, start, end, categories}; an empty dataset gives an empty
\* holidays list.
C6_YearListingRoundTrip ==
    \A p \in Procs :
        YearDone(p) =>
            /\ resp[p].kind = "return"
            /\ resp[p].status = 200
            /\ DOMAIN resp[p].body = {"year", "holidays"}
            /\ resp[p].body.year = req[p].year
            /\ LET data == files[req[p].year]
                   out == resp[p].body.holidays
               IN  /\ Len(out) = Len(data)
                   /\ \A i \in 1..Len(data) :
                          /\ DOMAIN out[i] =
                                 {"uid", "holiday", "start", "end", "categories"}
                          /\ out[i].uid = data[i].uid
                          /\ out[i].holiday = data[i].summary
                          /\ out[i].start = data[i].start
                          /\ out[i].end = data[i].end
                          /\ out[i].categories = data[i].categories

\* the existing but empty json/2000.json: a holidays list with nothing in it
C6_Witness ==
    \E p \in Procs :
        /\ YearDone(p)
        /\ req[p].year = 2000
        /\ files[2000] = <<>>
        /\ resp[p].body = [year |-> 2000, holidays |-> <<>>]

-----------------------------------------------------------------------------
(* C7: the month listing *)

MonthDone(p) ==
    pc[p] = "done" /\ req[p].op = "holidays_list" /\ req[p].year \in DOMAIN files

\* the places of the records of data whose start text names the month
StartsIn(data, month) ==
    {i \in 1..Len(data) : Columns(data[i].start, 6, 7) = month}

\* the k-th smallest member of S
Nth(S, k) == CHOOSE i \in S : Cardinality({j \in S : j <= i}) = k

\* C7: for a year with a dataset holidays_list returns, in dataset order,
\* exactly the records whose start lies in the asked month (a record that only
\* runs into the month is left out), and the text 'No holidays found for this
\* month' when there is none.
C7_MonthListingByStart ==
    \A p \in Procs :
        MonthDone(p) =>
            LET data == files[req[p].year]
                S == StartsIn(data, req[p].month)
            IN  /\ resp[p].kind = "return"
                /\ resp[p].status = 200
                /\ IF S = {}
                   THEN resp[p].body =
                            [response |-> "No holidays found for this month"]
                   ELSE /\ DOMAIN resp[p].body = {"holidays"}
                        /\ Len(resp[p].body.holidays) = Cardinality(S)
                        /\ \A k \in 1..Cardinality(S) :
                               resp[p].body.holidays[k] = data[Nth(S, k)]

\* February asked of a file holding h2 (31 January to 2 February) and then h3
\* (from 2 February): h3 alone is listed
C7_Witness ==
    \E p \in Procs :
        /\ MonthDone(p)
        /\ req[p].month = 2
        /\ Len(files[req[p].year]) = 2
        /\ files[req[p].year][1].uid = "h2"
        /\ files[req[p].year][2].uid = "h3"
        /\ Covers(files[req[p].year][1], req[p].year, 2, 1)
        /\ DOMAIN resp[p].body = {"holidays"}
        /\ Len(resp[p].body.holidays) = 1
        /\ resp[p].body.holidays[1].uid = "h3"

-----------------------------------------------------------------------------
(* C8: the coverage check *)

CoverageDone(p) == pc[p] = "done" /\ req[p].op = "api_coverage_year"

\* C8: api_coverage_year answers coverage 'ok' exactly when the year has a
\* dataset, whatever the dataset holds, and 'data not available' otherwise; it
\* echoes the year, and its only file-system call is the existence check.
C8_CoverageIffDataset ==
    \A p \in Procs :
        CoverageDone(p) =>
            /\ resp[p].kind = "return"
            /\ resp[p].status = 200
            /\ resp[p].body =
                   [year |-> req[p].year,
                    coverage |-> IF req[p].year \in DOMAIN files
                                 THEN "ok" ELSE "data not available"]
            /\ fsCalls[p] = <<"isfile">>

\* the empty json/2001.json is coverage 'ok'
C8_Witness ==
    \E p \in Procs :
        /\ CoverageDone(p)
        /\ req[p].year = 2001
        /\ 2001 \in DOMAIN files
        /\ files[2001] = <<>>
        /\ resp[p].body.coverage = "ok"

-----------------------------------------------------------------------------
(* C9: no internal error from a missing year *)

\* C9: every finished request of check_holiday, holiday_info, holidays_list
\* and holidays_in_year ended in a normal outcome, status 200, 400 or 404,
\* and in no unhandled exception, also when the year's file went away between
\* the handler's existence check and its read.
C9_NoInternalError ==
    \A p \in Procs :
        pc[p] = "done" =>
            /\ resp[p].kind # "unhandled"
            /\ resp[p].status \in {200, 400, 404}

-----------------------------------------------------------------------------
(* C10: queries write nothing and do not disturb each other *)

\* the response of request r served from its first step to its last with
\* nothing in between, the directory being dir
RunAlone(r, dir) ==
    CASE r.op \in DateOps ->
           LET e == get_holiday_info_enter(r.year, r.month, r.day,
                                           r.year \in DOMAIN dir)
           IN  Present(r.op,
                       IF e.value # <<>> THEN e.value[1]
                       ELSE get_holiday_info_loop(
                                dir[r.year], date(r.year, r.month, r.day)[1], 1))
      [] r.op = "holidays_list" ->
           IF r.year \notin DOMAIN dir
           THEN Raised(404, "Holiday data not available for the year")
           ELSE holidays_list_body(dir[r.year], r.month)
      [] r.op = "holidays_in_year" ->
           IF r.year \notin DOMAIN dir
           THEN YearNotAvailable(r.year)
           ELSE holidays_in_year_body(r.year, dir[r.year])
      [] r.op = "api_coverage_year" ->
           api_coverage_year_body(r.year, r.year \in DOMAIN dir)

\* C10: no step of a request changes the dataset store, a finished request's
\* response stays as it is until it is sent, and a request that finishes,
\* however its steps were interleaved with those of the other worker's
\* requests, finishes with the response the same request gets when served
\* alone from the store as it is.
C10_QueriesLeaveStoreAlone ==
    [][ /\ files' = files
        /\ \A p \in Procs :
               /\ (pc[p] = "done" /\ pc'[p] = "done") =>
                      (resp'[p] = resp[p] /\ req'[p] = req[p])
               /\ (pc[p] # "done" /\ pc'[p] = "done") =>
                      resp'[p] = RunAlone(req'[p], files') ]_vars

\* both workers have finished a two-step request on json/2000.json, a month
\* listing and a date resolution, each with the answer it gets alone
C10_Witness ==
    /\ 2000 \in DOMAIN files
    /\ Len(files[2000]) = 2
    /\ pc["w1"] = "done" /\ req["w1"].op = "holidays_list" /\ req["w1"].year = 2000
    /\ pc["w2"] = "done" /\ req["w2"].op = "check_holiday" /\ req["w2"].year = 2000
    /\ fsCalls["w1"] = <<"isfile", "open">>
    /\ fsCalls["w2"] = <<"isfile", "open">>
    /\ resp["w1"] = RunAlone(req["w1"], files)
    /\ resp["w2"] = RunAlone(req["w2"], files)

=============================================================================
